---------------------------- MODULE Spec2Model ----------------------------
(***************************************************************************)
(* Validator node of teamTripCode/tc-validator-node: the PBFT replica      *)
(* (ConsensusService), the Redis stream that feeds it (QueueService), the  *)
(* gateway entry point (ValidatorGateway) and the part of the block store  *)
(* (BlockService) that finalization uses.                                  *)
(*                                                                         *)
(* A replica's state is one record whose fields carry the names of the     *)
(* fields of the services.  Every handler is an operator from a replica    *)
(* state (and a message) to the replica state the handler leaves behind,   *)
(* so that a handler that calls another handler is the composition of the  *)
(* two operators.  A handler called alone runs to completion in one step;  *)
(* the handlers one batch starts together each run to their first await    *)
(* before any of them resumes.                                             *)
(***************************************************************************)
EXTENDS Integers, Sequences, FiniteSets, TLC

VARIABLES replica

vars == <<replica>>

(***************************************************************************)
(* Bounds of the model.                                                    *)
(***************************************************************************)
\* Largest view number a replica moves to.
MaxView == 4
\* Largest number of entries of the stream not yet delivered to the consumer.
MaxStream == 4
\* Largest length of one list of a message table.
MaxTable == 3
\* Largest length of one list of prepareMessages: a quorum and one more.
MaxPrepares == 4
\* Largest number of blockFinalized events of one replica.
MaxFinalized == 2
\* The capacity of the transaction mempool (5000 in the source), scaled.
MAX_MEMPOOL_SIZE == 3
\* The age at which the sweep removes a transaction (72 hours in the
\* source), in ticks of the clock of the model.
MAX_TX_AGE == 1
\* Largest reading of the clock of the model.
MaxClock == 2
\* Largest number of executions of processBatch in flight.
MaxInFlight == 2

(***************************************************************************)
(* Identities.  n1 and n2 are the addresses of two nodes running the code  *)
(* (getAddress(): the SHA-256 of the node's public key); validator2 ..     *)
(* validator4 are the literal entries of the validator list.  A public key *)
(* is a PEM string: the keys of the two nodes and the key of the Byzantine *)
(* party.  An address or a literal of the list is not a public key.        *)
(***************************************************************************)
Replicas == {"n1", "n2"}

Local == "n1"

\* The four nodes of a deployment in which every validator runs the code.
Nodes == {"n1", "n2", "n3", "n4"}

\* The public key of the Byzantine party; it signs with the matching private
\* key and names itself by this key in the validator field of its messages.
Byzantine == "pem_b"

\* SignatureService.loadKeys: the public key of the node with this address.
PublicKeyOf(address) ==
    CASE address = "n1" -> "pem_n1"
      [] address = "n2" -> "pem_n2"
      [] address = "n3" -> "pem_n3"
      [] address = "n4" -> "pem_n4"
      [] OTHER -> "none"

PublicKeys == {PublicKeyOf(r) : r \in Nodes} \cup {Byzantine}

\* The value of a field that is undefined in the JavaScript object.
Undefined == -1

\* A signature that no key of the registry produced for the message bytes.
InvalidSignature == "invalid"

\* The instants new Date() can give to a genesis block, and the hashes of the
\* genesis blocks made at them.
Timestamps == {1, 2}

GenesisHash(timestamp) == IF timestamp = 1 THEN "G1" ELSE "G2"

GenesisHashes == {GenesisHash(timestamp) : timestamp \in Timestamps}

\* Blocks, by hash.  Candidate blocks are all at index 1 on top of the same
\* parent; a genesis block is at index 0 with previousHash '0' and no
\* transactions, its content is its timestamp.
BlockOf(hash) ==
    IF hash \in GenesisHashes
    THEN [index |-> 0, previousHash |-> "0", hash |-> hash,
          body |-> IF hash = "G1" THEN "1" ELSE "2",
          transactions |-> {}]
    ELSE [index |-> 1, previousHash |-> "H0", hash |-> hash,
          body |-> IF hash = "H1" THEN "a" ELSE "b",
          transactions |-> IF hash = "H1" THEN {"t1"} ELSE {"t2"}]

Hashes == {"H1", "H2"}

NoBlock ==
    [index |-> Undefined, previousHash |-> "", hash |-> "", body |-> "",
     transactions |-> {}]

\* Block.calculateHash: the digest of the content of the block.
calculateHash(block) ==
    CASE block.index = 1 /\ block.previousHash = "H0" /\ block.body = "a" -> "H1"
      [] block.index = 1 /\ block.previousHash = "H0" /\ block.body = "b" -> "H2"
      [] block.index = 0 /\ block.previousHash = "0" /\ block.body = "1" -> "G1"
      [] block.index = 0 /\ block.previousHash = "0" /\ block.body = "2" -> "G2"
      [] OTHER -> "H?"

\* `${message.blockHeight}:${message.blockHash}`
KeyOf(message) == <<message.blockHeight, message.blockHash>>

Keys == {1} \X Hashes

(***************************************************************************)
(* Messages.  signature is the public key whose private key signed the     *)
(* message with its signature field blanked, or InvalidSignature.          *)
(***************************************************************************)
Msg(type, height, hash, validator, view, newView, signature) ==
    [type |-> type, blockHeight |-> height, blockHash |-> hash,
     validator |-> validator, view |-> view, newView |-> newView,
     signature |-> signature,
     viewChangeMessages |-> <<>>, preprepareMessages |-> <<>>]

\* verifySignature, were it to accept the signature of a known key under
\* any name.
verifySignature_AnyName(signature, publicKey) == signature \in PublicKeys

\* SignatureService.verifySignature(bytes, signature, publicKey).  With a
\* publicKey that is no key crypto throws; every caller then leaves its
\* handler as it does on false (the catch of the handler logs the error).
verifySignature(signature, publicKey) ==
    publicKey \in PublicKeys /\ signature = publicKey

\* crypto's verify throws for a publicKey that is no PEM key.
verifySignatureThrows(publicKey) == publicKey \notin PublicKeys

\* SignatureService.signMessage over the message with its signature blanked.
signMessage(s) == s.publicKey

(***************************************************************************)
(* ConsensusService                                                        *)
(***************************************************************************)
\* updateValidatorList: the list every node builds for itself.
updateValidatorList(address) ==
    <<address, "validator2", "validator3", "validator4">>

getTotalValidators(s) == Len(s.activeValidators)

getRequiredQuorum(s) == ((getTotalValidators(s) * 2) \div 3) + 1

getRequiredPrepares(s) == ((getTotalValidators(s) * 2) \div 3) + 1

getRequiredCommits(s) == getRequiredPrepares(s)

\* activeValidators[view % activeValidators.length]
LeaderOf(s, view) == s.activeValidators[(view % Len(s.activeValidators)) + 1]

isPrimaryValidator(s, view) ==
    IF Len(s.activeValidators) = 0 THEN FALSE
    ELSE LeaderOf(s, view) = s.address

\* verifyMessageSignature, were it to accept the signature of any known key.
verifyMessageSignature_AnySigner(message) == message.signature \in PublicKeys

\* ConsensusService.verifyMessageSignature: message.validator is the key.
verifyMessageSignature(message) ==
    verifySignature(message.signature, message.validator)

\* QueueService.enqueueConsensusMessage: XADD to the stream.
enqueueConsensusMessage(s, message) ==
    [s EXCEPT !.stream = Append(@, message)]

\* ValidatorGateway.broadcastConsensusMessage: emit to the peers, then enqueue.
broadcastConsensusMessage(s, message) ==
    enqueueConsensusMessage([s EXCEPT !.sent = @ \cup {message}], message)

\* clearTimeout of the timer, then setTimeout for a replica that is neither
\* primary nor changing view: a timer set anew has its whole time to run.
setupViewChangeTimeout(s) ==
    [s EXCEPT !.viewChangeTimeout = (~s.isPrimary /\ ~s.isViewChanging),
              !.elapsed = FALSE]

resetViewChangeTimeout(s) ==
    IF ~s.isPrimary THEN setupViewChangeTimeout(s) ELSE s

initiateViewChange(s) ==
    IF s.isViewChanging THEN s
    ELSE
      LET newView == s.currentView + 1
          viewChangeMessage ==
              Msg("VIEW_CHANGE", s.lastExecutedBlock, "", s.address,
                  s.currentView, newView, signMessage(s))
          s1 == [s EXCEPT !.isViewChanging = TRUE,
                          !.viewChangeMessages[newView] =
                              Append(@, viewChangeMessage)]
          s2 == enqueueConsensusMessage(s1, viewChangeMessage)
          s3 == broadcastConsensusMessage(s2, viewChangeMessage)
      IN [s3 EXCEPT !.progressTimers = @ \cup {newView}]

\* reproposePendingBlocks: BlockService has no getPendingBlocks, the call
\* throws and the catch of reproposePendingBlocks logs the error.
reproposePendingBlocks(s) == s

sendNewView(s, newView, messages) ==
    LET newViewMessage ==
            [Msg("NEW_VIEW", s.lastExecutedBlock, "", s.address,
                 newView, Undefined, signMessage(s))
             EXCEPT !.viewChangeMessages = messages]
        s1 == enqueueConsensusMessage(s, newViewMessage)
        s2 == broadcastConsensusMessage(s1, newViewMessage)
    IN reproposePendingBlocks(s2)

\* completeViewChange, were it to keep isPrimary as it was.
completeViewChange_KeepsFlag(s, newView, messages) ==
    LET s1 == [s EXCEPT !.currentView = newView,
                        !.isViewChanging = FALSE]
        s2 == IF s1.isPrimary THEN sendNewView(s1, newView, messages)
              ELSE setupViewChangeTimeout(s1)
    IN [s2 EXCEPT !.viewChanged = @ \cup {newView}]

completeViewChange(s, newView, messages) ==
    LET s1 == [s EXCEPT !.currentView = newView,
                        !.isPrimary = isPrimaryValidator(s, newView),
                        !.isViewChanging = FALSE]
        s2 == IF s1.isPrimary THEN sendNewView(s1, newView, messages)
              ELSE setupViewChangeTimeout(s1)
    IN [s2 EXCEPT !.viewChanged = @ \cup {newView}]

checkViewChangeProgress(s, newView) ==
    IF ~s.isViewChanging \/ s.currentView >= newView THEN s
    ELSE
      LET messages == s.viewChangeMessages[newView]
      IN IF Len(messages) >= getRequiredQuorum(s)
         THEN completeViewChange(s, newView, messages)
         ELSE initiateViewChange(s)

(***************************************************************************)
(* BlockService                                                            *)
(***************************************************************************)
\* getBlock: the entry of the mempool map under the hash, else the block
\* saved in Redis under the hash.  RedisService.hGet and get catch the error
\* of a failing store and return null.
getBlock(s, hash) ==
    IF hash \in s.mempool \/ (~s.storeDown /\ hash \in s.blocks)
    THEN BlockOf(hash) ELSE NoBlock

\* getBlock throws: the entry read from blockchain:blocks is one that
\* JSON.parse or new Block refuses, and the catch of getBlock rethrows.
getBlockThrows(s, hash) ==
    hash \notin s.mempool /\ ~s.storeDown /\ hash \in s.unreadable

getBlockByHeight(s, height) ==
    IF ~s.storeDown /\ height \in DOMAIN s.heightIndex
          /\ s.heightIndex[height] # ""
    THEN getBlock(s, s.heightIndex[height])
    ELSE NoBlock

isValidBlock(s, block) ==
    LET previousBlock == getBlockByHeight(s, block.index - 1)
    IN /\ block.hash = calculateHash(block)
       /\ ~(previousBlock # NoBlock /\ block.previousHash # previousBlock.hash)

\* isValidBlock throws: getBlockByHeight(block.index - 1) rethrows the error
\* of getBlock.
isValidBlockThrows(s, block) ==
    /\ block.hash = calculateHash(block)
    /\ ~s.storeDown
    /\ (block.index - 1) \in DOMAIN s.heightIndex
    /\ s.heightIndex[block.index - 1] # ""
    /\ getBlockThrows(s, s.heightIndex[block.index - 1])

\* saveBlock after isValidBlock has passed.  RedisService.hSet and set catch
\* the error of a failing store and log it: saveBlock sees no failure.
saveBlock(s, block) ==
    IF s.storeDown
    THEN [s EXCEPT !.blockHeight = IF block.index > @ THEN block.index ELSE @,
                   !.failedWrites = Append(@, block.hash)]
    ELSE [s EXCEPT !.blocks = @ \cup {block.hash},
                   !.mempool = @ \ block.transactions,
                   !.heightIndex[block.index] = block.hash,
                   !.height = block.index,
                   !.blockHeight = IF block.index > @ THEN block.index ELSE @,
                   !.saves = Append(@, block.hash)]

\* getBlockHeight: the value under blockchain:height, 0 when RedisService.get
\* returns null.
getBlockHeight(s) == IF s.storeDown THEN 0 ELSE s.height

\* createAndSaveGenesisBlock at the instant timestamp: saveBlock with its
\* isValidBlock test.
createAndSaveGenesisBlock(s, timestamp) ==
    LET genesisBlock == BlockOf(GenesisHash(timestamp))
    IN IF ~isValidBlock(s, genesisBlock) THEN s
       ELSE [saveBlock(s, genesisBlock) EXCEPT !.chain = <<genesisBlock.hash>>]

\* The loop of initializeChain over the heights up to blockHeight: the
\* hashes of the blocks it finds.
loadBlocks(s) ==
    LET found(i) == getBlockByHeight(s, i) # NoBlock
        heights == SelectSeq([i \in 1..(s.blockHeight + 1) |-> i - 1], found)
    IN [i \in 1..Len(heights) |-> s.heightIndex[heights[i]]]

\* initializeChain; chain is the list of blocks it returns.
initializeChain(s, timestamp) ==
    IF getBlockHeight(s) = 0
    THEN createAndSaveGenesisBlock(s, timestamp)
    ELSE [s EXCEPT !.chain = loadBlocks(s)]

\* BlockchainService.addBlock: saveBlock of a block not under
\* fullnode:blockchain, a key nothing writes; saveBlock throws on a block
\* that isValidBlock refuses.
addBlock(s, block) ==
    IF ~isValidBlock(s, block) THEN s ELSE saveBlock(s, block)

\* TripcoinService.distributeBlockReward: mints one block reward.
distributeBlockReward(s, blockHeight) ==
    [s EXCEPT !.rewards = Append(@, blockHeight)]

(***************************************************************************)
(* ConsensusService: the three phases                                      *)
(***************************************************************************)
Range(list) == {list[i] : i \in DOMAIN list}

Validators(list) == {list[i].validator : i \in DOMAIN list}

finalizeBlock(s, height, hash) ==
    LET key == <<height, hash>>
        block == getBlock(s, hash)
        called == [s EXCEPT !.finalizeCalls = @ \cup
                     {[height |-> height, hash |-> hash,
                       prepares |-> Cardinality(Validators(s.prepareMessages[key])),
                       commits |-> Cardinality(Validators(s.commitMessages[key]))]}]
    IN IF block = NoBlock THEN called
       ELSE IF ~isValidBlock(called, block) THEN called
       ELSE
         LET s1 == saveBlock(called, block)
             s2 == IF ~s1.isViewChanging
                   THEN distributeBlockReward(s1, block.index) ELSE s1
         IN [s2 EXCEPT
               !.lastExecutedBlock = IF height > @ THEN height ELSE @,
               !.processingBlocks = @ \ {key},
               !.prePrepareMessages[key] = <<>>,
               !.prepareMessages[key] = <<>>,
               !.commitMessages[key] = <<>>,
               !.finalized = Append(@, [blockHeight |-> height,
                                        blockHash |-> hash])]

broadcastCommit(s, height, hash) ==
    LET message == Msg("COMMIT", height, hash, s.address, s.currentView,
                       Undefined, signMessage(s))
    IN enqueueConsensusMessage(broadcastConsensusMessage(s, message), message)

broadcastPrepare(s, message) ==
    enqueueConsensusMessage(broadcastConsensusMessage(s, message), message)

\* A handler that has reached its first await (go) or has returned before it.
Started(s) == [go |-> TRUE, s |-> s]
Returned(s) == [go |-> FALSE, s |-> s]

\* handlePrePrepareMessage up to its first await: the sender and
\* processingBlocks tests, the mark, and the XADD that is issued.
handlePrePrepareMessageBegin(s, message) ==
    LET key == KeyOf(message) IN
    IF ~isPrimaryValidator(s, s.currentView)
         /\ message.validator # LeaderOf(s, s.currentView)
    THEN Returned(s)
    ELSE IF key \in s.processingBlocks THEN Returned(s)
    ELSE Started(enqueueConsensusMessage(
                    [s EXCEPT !.processingBlocks = @ \cup {key}], message))

\* The block service throws in handlePrePrepareMessage.
blockServiceThrows(s, hash) ==
    \/ getBlockThrows(s, hash)
    \/ /\ getBlock(s, hash) # NoBlock
       /\ isValidBlockThrows(s, getBlock(s, hash))

\* handlePrePrepareMessage from its first await on.  An error of the block
\* service leaves the handler at the await; handleConsensusMessage catches
\* and logs it.
handlePrePrepareMessageEnd(s, message) ==
    LET key == KeyOf(message)
        s3 == [s EXCEPT !.prePrepareMessages[key] = Append(@, message)]
        block == getBlock(s3, message.blockHash)
    IN IF blockServiceThrows(s3, message.blockHash) THEN s3
       ELSE IF block = NoBlock \/ ~isValidBlock(s3, block)
       THEN [s3 EXCEPT !.processingBlocks = @ \ {key}]
       ELSE broadcastPrepare(s3,
               Msg("PREPARE", message.blockHeight, message.blockHash,
                   s.address, s.currentView, Undefined, signMessage(s)))

handlePrePrepareMessage(s, message) ==
    LET begun == handlePrePrepareMessageBegin(s, message)
    IN IF begun.go THEN handlePrePrepareMessageEnd(begun.s, message)
       ELSE begun.s

\* handlePrepareMessage up to its first await: the XADD is issued.
handlePrepareMessageBegin(s, message) ==
    Started(enqueueConsensusMessage(s, message))

\* handlePrepareMessage from its first await on.
handlePrepareMessageEnd(s1, message) ==
    LET key == KeyOf(message)
    IN IF s1.prePrepareMessages[key] = <<>> THEN s1
       ELSE IF message.validator \in Validators(s1.prepareMessages[key]) THEN s1
       ELSE
         LET s2 == [s1 EXCEPT !.prepareMessages[key] = Append(@, message)]
         IN IF Len(s2.prepareMessages[key]) >= getRequiredPrepares(s2)
            THEN broadcastCommit(s2, message.blockHeight, message.blockHash)
            ELSE s2

handlePrepareMessage(s, message) ==
    handlePrepareMessageEnd(handlePrepareMessageBegin(s, message).s, message)

\* handleCommitMessage up to its first await: the XADD is issued.
handleCommitMessageBegin(s, message) ==
    Started(enqueueConsensusMessage(s, message))

\* handleCommitMessage from its first await on.
handleCommitMessageEnd(s1, message) ==
    LET key == KeyOf(message)
    IN IF Len(s1.prepareMessages[key]) < getRequiredPrepares(s1) THEN s1
       ELSE IF message.validator \in Validators(s1.commitMessages[key]) THEN s1
       ELSE
         LET s2 == [s1 EXCEPT !.commitMessages[key] = Append(@, message)]
         IN IF Len(s2.commitMessages[key]) >= getRequiredCommits(s2)
            THEN finalizeBlock(s2, message.blockHeight, message.blockHash)
            ELSE s2

handleCommitMessage(s, message) ==
    handleCommitMessageEnd(handleCommitMessageBegin(s, message).s, message)

\* handleViewChangeMessage up to its first await: the newView test and the
\* XADD that is issued.
handleViewChangeMessageBegin(s, message) ==
    IF message.newView <= s.currentView THEN Returned(s)
    ELSE Started(enqueueConsensusMessage(s, message))

\* handleViewChangeMessage from its first await on.
handleViewChangeMessageEnd(s1, message) ==
    LET newView == message.newView
        s2 == [s1 EXCEPT !.viewChangeMessages[newView] = Append(@, message)]
        s3 == IF ~s2.isViewChanging /\ newView > s2.currentView
              THEN initiateViewChange(s2) ELSE s2
        messages == s3.viewChangeMessages[newView]
    IN IF Len(messages) >= getRequiredQuorum(s3)
       THEN completeViewChange(s3, newView, messages)
       ELSE s3

handleViewChangeMessage(s, message) ==
    LET begun == handleViewChangeMessageBegin(s, message)
    IN IF begun.go THEN handleViewChangeMessageEnd(begun.s, message)
       ELSE begun.s

RECURSIVE replayPrePrepares(_, _)
\* The loop of handleNewViewMessage over message.preprepareMessages.
replayPrePrepares(s, preprepareMessages) ==
    IF preprepareMessages = <<>> THEN s
    ELSE replayPrePrepares(handlePrePrepareMessage(s, Head(preprepareMessages)),
                           Tail(preprepareMessages))

\* handleNewViewMessage up to its first await: the sender and view tests and
\* the XADD that is issued.
handleNewViewMessageBegin(s, message) ==
    IF message.validator # LeaderOf(s, message.view) THEN Returned(s)
    ELSE IF message.view <= s.currentView THEN Returned(s)
    ELSE Started(enqueueConsensusMessage(s, message))

\* handleNewViewMessage from its first await on.
handleNewViewMessageEnd(s1, message) ==
    LET view == message.view
    IN IF Len(message.viewChangeMessages) < getRequiredQuorum(s1) THEN s1
       ELSE
         LET s2 == [s1 EXCEPT !.currentView = view,
                              !.isPrimary = isPrimaryValidator(s1, view),
                              !.isViewChanging = FALSE]
             s3 == IF ~s2.isPrimary THEN setupViewChangeTimeout(s2) ELSE s2
             s4 == replayPrePrepares(s3, message.preprepareMessages)
         IN [s4 EXCEPT !.viewChanged = @ \cup {view}]

handleNewViewMessage(s, message) ==
    LET begun == handleNewViewMessageBegin(s, message)
    IN IF begun.go THEN handleNewViewMessageEnd(begun.s, message)
       ELSE begun.s

\* handleConsensusMessage up to the first await of the handler it routes to.
handleConsensusMessageBegin(s, message) ==
    LET s1 == IF isPrimaryValidator(s, s.currentView)
                   /\ message.validator = LeaderOf(s, s.currentView)
              THEN resetViewChangeTimeout(s) ELSE s
    IN IF ~verifyMessageSignature(message)
       THEN Returned([s1 EXCEPT !.invalidSignatures = @ \cup {message.validator}])
       ELSE IF message.view # Undefined /\ message.view < s1.currentView
                 /\ message.type \notin {"VIEW_CHANGE", "NEW_VIEW"}
       THEN Returned(s1)
       ELSE CASE message.type = "PRE_PREPARE" -> handlePrePrepareMessageBegin(s1, message)
              [] message.type = "PREPARE" -> handlePrepareMessageBegin(s1, message)
              [] message.type = "COMMIT" -> handleCommitMessageBegin(s1, message)
              [] message.type = "VIEW_CHANGE" -> handleViewChangeMessageBegin(s1, message)
              [] message.type = "NEW_VIEW" -> handleNewViewMessageBegin(s1, message)
              [] OTHER -> Returned(s1)

\* handleConsensusMessage from the first await of the handler on.
handleConsensusMessageEnd(s, message) ==
    CASE message.type = "PRE_PREPARE" -> handlePrePrepareMessageEnd(s, message)
      [] message.type = "PREPARE" -> handlePrepareMessageEnd(s, message)
      [] message.type = "COMMIT" -> handleCommitMessageEnd(s, message)
      [] message.type = "VIEW_CHANGE" -> handleViewChangeMessageEnd(s, message)
      [] message.type = "NEW_VIEW" -> handleNewViewMessageEnd(s, message)
      [] OTHER -> s

\* One call of handleConsensusMessage that nothing else runs beside.
handleConsensusMessage(s, message) ==
    LET begun == handleConsensusMessageBegin(s, message)
    IN IF begun.go THEN handleConsensusMessageEnd(begun.s, message)
       ELSE begun.s

processQueuedMessage(s, message) ==
    LET key == KeyOf(message) IN
    IF ~verifyMessageSignature(message)
    THEN [s EXCEPT !.invalidSignatures = @ \cup {message.validator}]
    ELSE CASE message.type = "PRE_PREPARE" ->
                [s EXCEPT !.prePrepareMessages[key] = Append(@, message)]
           [] message.type = "PREPARE" ->
                LET s1 == [s EXCEPT !.prepareMessages[key] = Append(@, message)]
                IN IF Len(s1.prepareMessages[key]) >= getRequiredPrepares(s1)
                   THEN broadcastCommit(s1, message.blockHeight, message.blockHash)
                   ELSE s1
           [] message.type = "COMMIT" ->
                LET s1 == [s EXCEPT !.commitMessages[key] = Append(@, message)]
                IN IF Len(s1.commitMessages[key]) >= getRequiredCommits(s1)
                   THEN finalizeBlock(s1, message.blockHeight, message.blockHash)
                   ELSE s1
           [] message.type = "VIEW_CHANGE" ->
                LET s1 == [s EXCEPT !.viewChangeMessages[message.newView] =
                                        Append(@, message)]
                IN IF Len(s1.viewChangeMessages[message.newView])
                        >= getRequiredQuorum(s1)
                   THEN completeViewChange(s1, message.newView,
                            s1.viewChangeMessages[message.newView])
                   ELSE s1
           [] OTHER -> s

\* ConsensusService.proposeBlock: a PREPARE without view, signed over the hash.
proposeBlock(s, block) ==
    broadcastPrepare(s,
        Msg("PREPARE", block.index, block.hash, s.address, Undefined,
            Undefined, InvalidSignature))

(***************************************************************************)
(* QueueService and ValidatorGateway                                       *)
(***************************************************************************)
BATCH_SIZE == 50

\* XACK of the entry a handler has returned for: handleConsensusMessage
\* catches every error, so the XACK that follows its await always runs.
xack(s) == [s EXCEPT !.pending = Tail(@)]

RECURSIVE startEntries(_, _, _)
\* entries.map(async ...): the callbacks are called one after another, and
\* each runs its handler up to the handler's first await before the next
\* callback is called.  started collects the entries whose handler awaits.
\* begun is the one outcome of the handler's first part.
startEntries(s, entries, started) ==
    IF entries = <<>> THEN [s |-> s, started |-> started]
    ELSE CHOOSE result \in
             {startEntries(begun.s, Tail(entries),
                           IF begun.go THEN Append(started, Head(entries))
                           ELSE started) :
                  begun \in {handleConsensusMessageBegin(s, Head(entries))}} :
             TRUE

RECURSIVE resumeEntries(_, _)
\* The handlers resume once every callback has been called, in the order in
\* which their XADD commands were issued; the rest of a handler is taken in
\* one piece.  s1 is the state the resumed handler leaves.
resumeEntries(s, started) ==
    IF started = <<>> THEN s
    ELSE CHOOSE result \in
             {resumeEntries(s1, Tail(started)) :
                  s1 \in {handleConsensusMessageEnd(s, Head(started))}} : TRUE

RECURSIVE ackEntries(_, _)
\* The XACK that follows each handler.
ackEntries(s, entries) ==
    IF entries = <<>> THEN s ELSE ackEntries(xack(s), Tail(entries))

\* The handlers that processBatch starts for the entries of one XREADGROUP
\* and awaits together with Promise.all.
handleEntries(s, entries) ==
    CHOOSE result \in
        {ackEntries(resumeEntries(begun.s, begun.started), entries) :
             begun \in {startEntries(s, entries, <<>>)}} : TRUE

\* processBatch: read up to BATCH_SIZE new entries, handle and XACK each.
processBatch(s) ==
    LET count == IF Len(s.stream) < BATCH_SIZE THEN Len(s.stream) ELSE BATCH_SIZE
        entries == SubSeq(s.stream, 1, count)
        rest == SubSeq(s.stream, count + 1, Len(s.stream))
    IN handleEntries([s EXCEPT !.stream = rest, !.pending = @ \o entries],
                     entries)

\* processBatch, were it not to raise isProcessing.
processBatchBegin_NoFlag(s) == [s EXCEPT !.inFlight = @ + 1]

\* processBatch up to the await of XREADGROUP: isProcessing is raised before
\* anything else.
processBatchBegin(s) ==
    [s EXCEPT !.isProcessing = TRUE, !.inFlight = @ + 1]

\* processBatch from the answer of XREADGROUP to the end of its finally: the
\* entries are handled and acknowledged, then isProcessing is lowered.
processBatchEnd(s) ==
    [processBatch(s) EXCEPT !.isProcessing = FALSE, !.inFlight = @ - 1]

\* The callback of the setInterval of startBatchProcessing.
startBatchProcessing(s) ==
    IF ~s.isProcessing THEN processBatchBegin(s)
    ELSE [s EXCEPT !.pollsSkipped = TRUE]

\* ValidatorGateway.verifyMessageSignature
gatewayVerifyMessageSignature(message) ==
    verifySignature(message.signature, message.validator)

\* ValidatorGateway.handleConsensusMessage (@SubscribeMessage('consensusMessage'))
gatewayHandleConsensusMessage(s, message) ==
    IF ~gatewayVerifyMessageSignature(message)
    THEN [s EXCEPT !.invalidSignatures = @ \cup {message.validator}]
    ELSE handleConsensusMessage(s, message)

\* BlockService.addToMempool of a block under its hash: the entry becomes
\* visible to getBlock, the only way a block not yet saved is found.
addToMempool(s, hash) == [s EXCEPT !.mempool = @ \cup {hash}]

(***************************************************************************)
(* MemPoolService.  A Map is the set of its entries, one per key; order is  *)
(* the order in which the Map mempool iterates, that of insertion.         *)
(***************************************************************************)
MapHas(map, key) == \E e \in map : e.key = key

MapSet(map, key, value) ==
    {e \in map : e.key # key} \cup {[key |-> key, value |-> value]}

MapDelete(map, key) == {e \in map : e.key # key}

\* Transactions, by hash, with their fee per byte (fee / size).  The
\* transaction t4 has no fee field: its fee / size is NaN, here Undefined.
TxHashes == {"t1", "t2", "t3", "t4"}

Tx(hash) ==
    [hash |-> hash,
     feePerByte |-> CASE hash = "t1" -> 1 [] hash = "t2" -> 2
                      [] hash = "t3" -> 3 [] OTHER -> Undefined]

\* The comparator (a, b) => a.fee / a.size - b.fee / b.size as sort uses it:
\* a result of NaN counts as +0.
compare(a, b) ==
    IF a.feePerByte = Undefined \/ b.feePerByte = Undefined THEN 0
    ELSE a.feePerByte - b.feePerByte

(***************************************************************************)
(* Array.prototype.sort of the runtime for an array shorter than the       *)
(* minimal run of its merge sort: the run the array starts with is found   *)
(* (and reversed if it descends strictly), then every later element is     *)
(* placed by binary insertion.                                             *)
(***************************************************************************)
RECURSIVE RunEnd(_, _, _)
RunEnd(array, i, descending) ==
    IF i > Len(array) THEN Len(array)
    ELSE IF descending = (compare(array[i], array[i - 1]) >= 0) THEN i - 1
    ELSE RunEnd(array, i + 1, descending)

Reverse(array) == [i \in 1..Len(array) |-> array[Len(array) + 1 - i]]

RECURSIVE FindSlot(_, _, _, _)
FindSlot(array, pivot, left, right) ==
    IF left >= right THEN left
    ELSE LET mid == left + ((right - left) \div 2)
         IN IF compare(pivot, array[mid]) < 0
            THEN FindSlot(array, pivot, left, mid)
            ELSE FindSlot(array, pivot, mid + 1, right)

RECURSIVE BinaryInsertionSort(_, _)
BinaryInsertionSort(array, i) ==
    IF i > Len(array) THEN array
    ELSE LET slot == FindSlot(array, array[i], 1, i)
         IN BinaryInsertionSort(
                SubSeq(array, 1, slot - 1) \o <<array[i]>>
                    \o SubSeq(array, slot, i - 1)
                    \o SubSeq(array, i + 1, Len(array)),
                i + 1)

sort(array) ==
    IF Len(array) < 2 THEN array
    ELSE LET descending == compare(array[2], array[1]) < 0
             end == RunEnd(array, 3, descending)
             run == IF descending
                    THEN Reverse(SubSeq(array, 1, end))
                            \o SubSeq(array, end + 1, Len(array))
                    ELSE array
         IN BinaryInsertionSort(run, end + 1)

NoCall == <<>>

\* removeLowestFeeTransactions: deletes the first ceil(size * 0.1) entries
\* in ascending order of fee per byte.
removeLowestFeeTransactions(s) ==
    LET txs == sort([i \in 1..Len(s.order) |-> Tx(s.order[i])])
        toRemove == (Cardinality(s.memPool) + 9) \div 10
        keys == {txs[i].hash : i \in 1..toRemove}
    IN [s EXCEPT !.memPool = {e \in @ : e.key \notin keys},
                 !.txTimes = {e \in @ : e.key \notin keys},
                 !.order = SelectSeq(@, LAMBDA key : key \notin keys)]

\* addTransaction up to the await of the balance of the sender: the shedding
\* and the checks of validateTransaction that need no lookup.  A call that
\* finds the hash in the mempool returns false; any other call waits.
addTransactionBegin(s, tx) ==
    LET s1 == IF Cardinality(s.memPool) >= MAX_MEMPOOL_SIZE
              THEN removeLowestFeeTransactions(s) ELSE s
        s2 == [s1 EXCEPT !.returns =
                  IF @ # NoCall /\ @[Len(@)].hash = tx.hash THEN @ ELSE NoCall]
    IN IF MapHas(s2.memPool, tx.hash)
       THEN [s2 EXCEPT !.returns =
                Append(@, [hash |-> tx.hash, result |-> FALSE])]
       ELSE [s2 EXCEPT !.adding = @ \cup {tx.hash}]

\* addTransaction from the answer of TripcoinService.validateTransaction on.
addTransactionEnd(s, tx, valid) ==
    LET s1 == [s EXCEPT !.adding = @ \ {tx.hash},
                        !.returns = Append(@, [hash |-> tx.hash,
                                               result |-> valid])]
    IN IF valid
       THEN [s1 EXCEPT !.memPool = MapSet(@, tx.hash, tx),
                       !.txTimes = MapSet(@, tx.hash, s.now),
                       !.order = IF MapHas(s.memPool, tx.hash) THEN @
                                 ELSE Append(@, tx.hash)]
       ELSE s1

\* cleanupOldTransactions (@Interval): deletes the entries older than
\* MAX_TX_AGE.
cleanupOldTransactions(s) ==
    LET old == {e.key : e \in {f \in s.txTimes : s.now - f.value > MAX_TX_AGE}}
    IN [s EXCEPT !.memPool = {e \in @ : e.key \notin old},
                 !.txTimes = {e \in @ : e.key \notin old},
                 !.order = SelectSeq(@, LAMBDA key : key \notin old),
                 !.returns = NoCall]

(***************************************************************************)
(* Initial state: the services after construction and initialize().        *)
(***************************************************************************)
InitReplica(address) ==
    LET constructed ==
          [address |-> address,
           publicKey |-> PublicKeyOf(address),
           prePrepareMessages |-> [k \in Keys |-> <<>>],
           prepareMessages |-> [k \in Keys |-> <<>>],
           commitMessages |-> [k \in Keys |-> <<>>],
           viewChangeMessages |-> [v \in 1..(MaxView + 1) |-> <<>>],
           currentView |-> 0,
           isViewChanging |-> FALSE,
           viewChangeTimeout |-> FALSE,
           elapsed |-> FALSE,
           lastExecutedBlock |-> 0,
           activeValidators |-> updateValidatorList(address),
           isPrimary |-> FALSE,
           processingBlocks |-> {},
           progressTimers |-> {},
           stream |-> <<>>,
           sent |-> {},
           mempool |-> {},
           blocks |-> {},
           heightIndex |-> [h \in 0..1 |-> ""],
           height |-> 0,
           blockHeight |-> 0,
           chain |-> <<>>,
           unreadable |-> {},
           saves |-> <<>>,
           rewards |-> <<>>,
           finalized |-> <<>>,
           finalizeCalls |-> {},
           viewChanged |-> {},
           invalidSignatures |-> {},
           memPool |-> {},
           order |-> <<>>,
           txTimes |-> {},
           adding |-> {},
           now |-> 0,
           returns |-> NoCall,
           storeDown |-> FALSE,
           pending |-> <<>>,
           isProcessing |-> FALSE,
           inFlight |-> 0,
           pollsSkipped |-> FALSE,
           failedWrites |-> <<>>]
        primary == [constructed EXCEPT
                      !.isPrimary = isPrimaryValidator(constructed, 0)]
    IN setupViewChangeTimeout(primary)

Init == replica = [r \in Replicas |-> InitReplica(r)]

\* The bounds of the model, as a condition on the state a step leaves.
Bounded(s) ==
    /\ Len(s.stream) <= MaxStream
    /\ \A k \in Keys : /\ Len(s.prePrepareMessages[k]) <= MaxTable
                        /\ Len(s.prepareMessages[k]) <= MaxPrepares
                        /\ Len(s.commitMessages[k]) <= MaxTable
    /\ \A v \in 1..MaxView : Len(s.viewChangeMessages[v]) <= MaxTable
    /\ s.viewChangeMessages[MaxView + 1] = <<>>
    /\ s.currentView <= MaxView
    /\ Len(s.finalized) <= MaxFinalized
    /\ Len(s.saves) <= MaxFinalized
    /\ Len(s.failedWrites) <= MaxFinalized

\* Messages other nodes have broadcast.
Net(r) == UNION {replica[q].sent : q \in (DOMAIN replica) \ {r}}

(***************************************************************************)
(* Actions                                                                 *)
(***************************************************************************)
\* A message arrives at the gateway.
GatewayDeliver(r, message) ==
    LET next == gatewayHandleConsensusMessage(replica[r], message)
    IN /\ replica' = [replica EXCEPT ![r] = next]
       /\ Bounded(replica'[r])

\* The consumer runs one batch of the stream through handleConsensusMessage.
ProcessBatch(r) ==
    LET next == processBatch(replica[r])
    IN /\ replica[r].stream # <<>>
       /\ replica' = [replica EXCEPT ![r] = next]
       /\ Bounded(replica'[r])

\* The consumer hands the next entry of the stream to processQueuedMessage.
ProcessQueued(r) ==
    LET next == processQueuedMessage([replica[r] EXCEPT !.stream = Tail(@)],
                                     Head(replica[r].stream))
    IN /\ replica[r].stream # <<>>
       /\ replica' = [replica EXCEPT ![r] = next]
       /\ Bounded(replica'[r])

\* A candidate block becomes known to the block service.
AddToMempool(r, hash) ==
    LET next == addToMempool(replica[r], hash)
    IN /\ hash \notin replica[r].mempool
       /\ replica' = [replica EXCEPT ![r] = next]
       /\ Bounded(replica'[r])

\* The validator service proposes a block it knows.
ProposeBlock(r, hash) ==
    LET next == proposeBlock(replica[r], BlockOf(hash))
    IN /\ hash \in replica[r].mempool
       /\ replica' = [replica EXCEPT ![r] = next]
       /\ Bounded(replica'[r])

\* The view-change timer set by setupViewChangeTimeout fires.
ViewChangeTimeout(r) ==
    LET next == initiateViewChange(
                    [replica[r] EXCEPT !.viewChangeTimeout = FALSE,
                                       !.elapsed = FALSE])
    IN /\ replica[r].viewChangeTimeout
       /\ replica' = [replica EXCEPT ![r] = next]
       /\ Bounded(replica'[r])

\* Part of the time of the view-change timer passes without its firing.
TimerRuns(r) ==
    /\ replica[r].viewChangeTimeout
    /\ ~replica[r].elapsed
    /\ replica' = [replica EXCEPT ![r].elapsed = TRUE]

\* The timer set by initiateViewChange for newView fires.
ViewChangeProgress(r, newView) ==
    LET next == checkViewChangeProgress(
                    [replica[r] EXCEPT !.progressTimers = @ \ {newView}],
                    newView)
    IN /\ newView \in replica[r].progressTimers
       /\ replica' = [replica EXCEPT ![r] = next]
       /\ Bounded(replica'[r])

\* The interval of startBatchProcessing fires.
PollTimer(r) ==
    LET next == startBatchProcessing(replica[r])
    IN /\ next.inFlight <= MaxInFlight
       /\ replica' = [replica EXCEPT ![r] = next]

\* XREADGROUP answers a running processBatch, which runs to its end.
BatchEnd(r) ==
    LET next == processBatchEnd(replica[r])
    IN /\ replica[r].inFlight > 0
       /\ replica' = [replica EXCEPT ![r] = next]
       /\ Bounded(replica'[r])

\* The store starts to fail every command.
StoreFails(r) ==
    /\ ~replica[r].storeDown
    /\ replica' = [replica EXCEPT ![r].storeDown = TRUE]

\* The store answers again.
StoreRecovers(r) ==
    /\ replica[r].storeDown
    /\ replica' = [replica EXCEPT ![r].storeDown = FALSE]

\* A caller calls addTransaction; the call runs to its await.
AddTransactionBegin(r, hash) ==
    LET next == addTransactionBegin(replica[r], Tx(hash))
    IN /\ hash \notin replica[r].adding
       /\ Len(next.returns) <= 2
       /\ replica' = [replica EXCEPT ![r] = next]

\* The balance of the sender arrives and the call of addTransaction returns.
AddTransactionEnd(r, hash, valid) ==
    LET next == addTransactionEnd(replica[r], Tx(hash), valid)
    IN /\ hash \in replica[r].adding
       /\ Len(next.returns) <= 2
       /\ replica' = [replica EXCEPT ![r] = next]

\* The interval of cleanupOldTransactions fires.
CleanupOldTransactions(r) ==
    replica' = [replica EXCEPT ![r] = cleanupOldTransactions(replica[r])]

\* Time passes.
Tick(r) ==
    /\ replica[r].now < MaxClock
    /\ replica' = [replica EXCEPT ![r].now = @ + 1, ![r].returns = NoCall]

(***************************************************************************)
(* Messages of the environment.  The Byzantine party signs with its own    *)
(* key; a message that names an address or a literal of the validator list *)
(* in its validator field cannot verify, whatever its signature.           *)
(***************************************************************************)
Signed(type, hash, view) ==
    Msg(type, 1, hash, Byzantine, view, Undefined, Byzantine)

ViewChange(newView, validator, signature) ==
    Msg("VIEW_CHANGE", 0, "", validator, newView - 1, newView, signature)

\* A PRE_PREPARE that names the leader of view 1 and is not signed.
ForgedPrePrepare ==
    Msg("PRE_PREPARE", 1, "H1", "validator2", 1, Undefined, InvalidSignature)

\* A NEW_VIEW for a view with three VIEW_CHANGE entries and a PRE_PREPARE to
\* replay.
NewView(view, validator, signature) ==
    [Msg("NEW_VIEW", 0, "", validator, view, Undefined, signature)
     EXCEPT !.viewChangeMessages =
                <<ViewChange(view, Byzantine, Byzantine),
                  ViewChange(view, Byzantine, Byzantine),
                  ViewChange(view, Byzantine, Byzantine)>>,
            !.preprepareMessages = <<ForgedPrePrepare>>]

BlockMessages ==
    {Signed("COMMIT", hash, 0) : hash \in Hashes}
        \cup {Signed("PRE_PREPARE", "H1", 0)}

ViewMessages ==
    {ViewChange(1, Byzantine, Byzantine), ViewChange(2, Byzantine, Byzantine),
     NewView(1, Byzantine, Byzantine), NewView(1, "validator2", Byzantine)}

(***************************************************************************)
(* Specifications                                                          *)
(***************************************************************************)
\* One node, the three phases: block messages of the Byzantine party.
NextBlocks ==
    \/ \E m \in BlockMessages : GatewayDeliver(Local, m)
    \/ ProcessBatch(Local)
    \/ ProcessQueued(Local)
    \/ \E h \in Hashes : AddToMempool(Local, h)

SpecBlocks == Init /\ [][NextBlocks]_vars

\* One node, the view change: view messages of the Byzantine party.
NextViews ==
    \/ \E m \in ViewMessages : GatewayDeliver(Local, m)
    \/ ProcessBatch(Local)
    \/ ProcessQueued(Local)
    \/ ViewChangeTimeout(Local)
    \/ \E v \in 1..MaxView : ViewChangeProgress(Local, v)

SpecViews == Init /\ [][NextViews]_vars

\* Two nodes and the network between them: view-change messages.
PeerMessages == {ViewChange(1, Byzantine, Byzantine)}

NextPeers ==
    \/ \E r \in Replicas : \E m \in PeerMessages \cup Net(r) :
           GatewayDeliver(r, m)
    \/ \E r \in Replicas : ProcessBatch(r)
    \/ \E r \in Replicas : ViewChangeTimeout(r)
    \/ \E r \in Replicas : \E v \in 1..MaxView : ViewChangeProgress(r, v)

SpecPeers == Init /\ [][NextPeers]_vars

\* One node, every operation: block and view messages of the Byzantine party
\* and a PREPARE that claims validator3 under the Byzantine key.
Messages ==
    {Signed("PRE_PREPARE", "H1", 0), Signed("COMMIT", "H1", 0),
     ViewChange(1, Byzantine, Byzantine),
     Msg("PREPARE", 1, "H1", "validator3", 0, Undefined, Byzantine)}

Next ==
    \/ \E m \in Messages : GatewayDeliver(Local, m)
    \/ ProcessBatch(Local)
    \/ ProcessQueued(Local)
    \/ AddToMempool(Local, "H1")
    \/ ProposeBlock(Local, "H1")
    \/ ViewChangeTimeout(Local)
    \/ \E v \in 1..MaxView : ViewChangeProgress(Local, v)

Spec == Init /\ [][Next]_vars

\* One node and the messages of the environment, consumed on either path,
\* with blocks that become known and view changes started by the timer.
NextDrop ==
    \/ \E m \in Messages : GatewayDeliver(Local, m)
    \/ ProcessBatch(Local)
    \/ ProcessQueued(Local)
    \/ ViewChangeTimeout(Local)
    \/ AddToMempool(Local, "H1")

SpecDrop == Init /\ [][NextDrop]_vars

\* Four nodes running the code and no other party: blocks become known to
\* the block services, the node n1 proposes H1, every broadcast message
\* reaches the gateway of every other node and every stream is consumed.
InitNodes == replica = [r \in Nodes |-> InitReplica(r)]

NextHappy ==
    \/ \E r \in Nodes : AddToMempool(r, "H1")
    \/ ProposeBlock(Local, "H1")
    \/ \E r \in Nodes : \E m \in Net(r) : GatewayDeliver(r, m)
    \/ \E r \in Nodes : ProcessBatch(r)

\* Fair delivery: a block that can become known does, a proposal that can be
\* made is made, a broadcast message is delivered and a stream is consumed.
FairHappy ==
    /\ \A r \in Nodes : WF_vars(AddToMempool(r, "H1"))
    /\ WF_vars(ProposeBlock(Local, "H1"))
    /\ \A r \in Nodes : WF_vars(\E m \in Net(r) : GatewayDeliver(r, m))
    /\ \A r \in Nodes : WF_vars(ProcessBatch(r))

SpecHappy == InitNodes /\ [][NextHappy]_vars /\ FairHappy

\* Four nodes running the code and no proposal in any view: the timers of
\* the nodes fire, every broadcast message reaches the gateway of every other
\* node and every stream is consumed.  The Byzantine party may send n1 its
\* VIEW_CHANGE for view 1, as often as it likes or never.
NextSilent ==
    \/ GatewayDeliver(Local, ViewChange(1, Byzantine, Byzantine))
    \/ \E r \in Nodes : \E m \in Net(r) : GatewayDeliver(r, m)
    \/ \E r \in Nodes : ProcessBatch(r)
    \/ \E r \in Nodes : ViewChangeTimeout(r)
    \/ \E r \in Nodes : \E v \in 1..MaxView : ViewChangeProgress(r, v)

\* A timer that is set fires, a broadcast message is delivered and a stream
\* is consumed; nothing obliges the Byzantine party.
FairSilent ==
    /\ \A r \in Nodes : WF_vars(\E m \in Net(r) : GatewayDeliver(r, m))
    /\ \A r \in Nodes : WF_vars(ProcessBatch(r))
    /\ \A r \in Nodes : WF_vars(ViewChangeTimeout(r))
    /\ \A r \in Nodes : \A v \in 1..MaxView :
           WF_vars(ViewChangeProgress(r, v))

SpecSilent == InitNodes /\ [][NextSilent]_vars /\ FairSilent

\* One node and its consumer, step by step: the poll timer and the batches
\* it starts, while block messages arrive at the gateway.
NextQueue ==
    \/ \E m \in BlockMessages : GatewayDeliver(Local, m)
    \/ AddToMempool(Local, "H1")
    \/ PollTimer(Local)
    \/ BatchEnd(Local)

SpecQueue == Init /\ [][NextQueue]_vars

\* One node, its transaction mempool and the finalization of the block H1,
\* which contains the transaction t1.
NextChain ==
    \/ AddTransactionBegin(Local, "t1")
    \/ \E valid \in BOOLEAN : AddTransactionEnd(Local, "t1", valid)
    \/ AddToMempool(Local, "H1")
    \/ GatewayDeliver(Local, Signed("COMMIT", "H1", 0))
    \/ ProcessBatch(Local)
    \/ ProcessQueued(Local)

SpecChain == Init /\ [][NextChain]_vars

\* One node and a store that may fail: COMMIT messages for the block H1.
NextStore ==
    \/ GatewayDeliver(Local, Signed("COMMIT", "H1", 0))
    \/ ProcessBatch(Local)
    \/ ProcessQueued(Local)
    \/ AddToMempool(Local, "H1")
    \/ StoreFails(Local)
    \/ StoreRecovers(Local)

SpecStore == Init /\ [][NextStore]_vars

\* One node, the transaction mempool: calls of addTransaction, which may
\* overlap at their await, the sweep and the clock.
NextMempool ==
    \/ \E h \in TxHashes : AddTransactionBegin(Local, h)
    \/ \E h \in TxHashes : \E valid \in BOOLEAN :
           AddTransactionEnd(Local, h, valid)
    \/ CleanupOldTransactions(Local)
    \/ Tick(Local)

SpecMempool == Init /\ [][NextMempool]_vars

(***************************************************************************)
(* Properties                                                              *)
(***************************************************************************)
\* Verify(m.bytes_without_sig, m.signature, pubKeyOf(m.validator)) for a
\* validator of the list of the replica.
SignatureValid(s, m) ==
    /\ m.validator \in Range(s.activeValidators)
    /\ m.signature = PublicKeyOf(m.validator)

\* The messages a replica holds in its four tables.
Stored(s) ==
    UNION ({Range(s.prePrepareMessages[k]) \cup Range(s.prepareMessages[k])
               \cup Range(s.commitMessages[k]) : k \in Keys}
           \cup {Range(s.viewChangeMessages[v]) : v \in 1..MaxView})

\* C1: no two replicas finalize different hashes at one height, and no
\* replica finalizes two different hashes at one height (N = 4, quorum 3,
\* every message of the environment signed by the one Byzantine key).
C1_Agreement ==
    \A p, q \in Replicas :
      \A i \in DOMAIN replica[p].finalized :
        \A j \in DOMAIN replica[q].finalized :
          replica[p].finalized[i].blockHeight = replica[q].finalized[j].blockHeight
            => replica[p].finalized[i].blockHash = replica[q].finalized[j].blockHash

\* C2: every call of finalizeBlock for a key happens in a state where
\* prepare[key] and commit[key] each hold messages of at least a quorum of
\* distinct validators.
C2_FinalizeNeedsBothQuorums ==
    \A r \in Replicas : \A call \in replica[r].finalizeCalls :
        /\ call.prepares >= getRequiredQuorum(replica[r])
        /\ call.commits >= getRequiredQuorum(replica[r])

\* C3: prepare[key] and commit[key] hold at most one message per validator
\* and at most N messages.
C3_OneMessagePerValidator ==
    \A r \in Replicas : \A k \in Keys :
      LET s == replica[r] IN
        /\ Len(s.prepareMessages[k]) = Cardinality(Validators(s.prepareMessages[k]))
        /\ Len(s.commitMessages[k]) = Cardinality(Validators(s.commitMessages[k]))
        /\ Len(s.prepareMessages[k]) <= getTotalValidators(s)
        /\ Len(s.commitMessages[k]) <= getTotalValidators(s)

\* C4: every message held in the prePrepare, prepare, commit or viewChange
\* table names a validator of the list in its validator field and carries a
\* signature that verifies against the public key of that validator.
C4_StoredMessagesVerified ==
    \A r \in Replicas : \A m \in Stored(replica[r]) :
        SignatureValid(replica[r], m)

\* What a dropped message leaves behind: the line of the logger.
Warned(s, m) == [s EXCEPT !.invalidSignatures = @ \cup {m.validator}]

\* Messages of every type that name the node itself, a literal of the list or
\* the Byzantine key, unsigned or signed with the key of the node.
Candidates ==
    {Msg(type, 1, "H1", validator, 0, Undefined, signature) :
        type \in {"PRE_PREPARE", "PREPARE", "COMMIT"},
        validator \in {Local, "validator2", Byzantine},
        signature \in {InvalidSignature, PublicKeyOf(Local)}}
    \cup {ViewChange(newView, validator, signature) :
        newView \in 1..MaxView,
        validator \in {Local, "validator2", Byzantine},
        signature \in {InvalidSignature, PublicKeyOf(Local)}}
    \cup {NewView(view, validator, InvalidSignature) :
        view \in 1..MaxView,
        validator \in {Local, "validator2", Byzantine}}

\* The candidates whose signature does not verify against their validator.
Unverifiable ==
    {m \in Candidates : ~verifySignature(m.signature, m.validator)}

\* C5: in every reachable state of the node, delivering a message whose
\* signature does not verify, at the gateway, from the stream through
\* handleConsensusMessage or through processQueuedMessage, leaves the
\* tables, processingBlocks, currentView, isViewChanging, the view-change
\* timer, the stream and every other field of the replica as they were; the
\* line of the logger is its only trace.  The reset of the timer that
\* handleConsensusMessage does before the verification re-arms nothing: it
\* needs a primary of the current view whose isPrimary is false.
C5_InvalidSignatureDropped ==
    \A m \in Unverifiable :
      LET s == replica[Local] IN
        /\ isPrimaryValidator(s, s.currentView) => s.isPrimary
        /\ gatewayHandleConsensusMessage(s, m) = Warned(s, m)
        /\ handleConsensusMessage(s, m) = Warned(s, m)
        /\ processQueuedMessage(s, m) = Warned(s, m)

\* C5 witness: the node has dropped a message of its own from the stream,
\* which names the leader of the view, and a PREPARE that claims validator3,
\* while it holds a stored message and is in a view change.
C5_Witness ==
    /\ replica[Local].invalidSignatures = {Local, "validator3"}
    /\ Stored(replica[Local]) # {}
    /\ replica[Local].isViewChanging

\* C6: every PRE_PREPARE a replica has stored comes from the leader of its
\* current view (the view does not change under SpecBlocks).
C6_PrePrepareOnlyFromLeader ==
    \A r \in Replicas : \A k \in Keys :
      \A m \in Range(replica[r].prePrepareMessages[k]) :
        m.validator = LeaderOf(replica[r], replica[r].currentView)

\* C7: among the replicas in one view at most one is primary.
C7_OnePrimaryPerView ==
    \A p, q \in Replicas :
      (p # q /\ replica[p].currentView = replica[q].currentView)
        => ~(replica[p].isPrimary /\ replica[q].isPrimary)

\* C8: no step decreases the currentView of a replica.
C8_ViewNeverDecreases ==
    [][\A r \in Replicas :
          replica'[r].currentView >= replica[r].currentView]_vars

\* The number of entries of a list that are the message.
Count(list, m) == Cardinality({i \in DOMAIN list : list[i] = m})

\* The lists of the four tables, by table and key.
Slots ==
    ({"prePrepare", "prepare", "commit"} \X Keys)
        \cup ({"viewChange"} \X {<<v, "">> : v \in 1..MaxView})

ListAt(s, slot) ==
    CASE slot[1] = "prePrepare" -> s.prePrepareMessages[slot[2]]
      [] slot[1] = "prepare" -> s.prepareMessages[slot[2]]
      [] slot[1] = "commit" -> s.commitMessages[slot[2]]
      [] OTHER -> s.viewChangeMessages[slot[2][1]]

\* C9: the effect of an enqueued message on the tables is applied once: a
\* step of the consumer of the stream (processBatch or processQueuedMessage)
\* adds no entry for a message whose entry the table already holds.
C9_AppliedOnce ==
    [][\A r \in Replicas :
         (ProcessBatch(r) \/ ProcessQueued(r)) =>
           \A slot \in Slots :
             \A m \in Range(ListAt(replica[r], slot)) :
               Count(ListAt(replica'[r], slot), m)
                   <= Count(ListAt(replica[r], slot), m)]_vars

\* C10: a (height, hash) is finalized once: the block is saved once, one
\* blockFinalized event is emitted for it and one reward is distributed.
C10_FinalizedOnce ==
    \A r \in Replicas :
      LET s == replica[r] IN
        /\ \A i, j \in DOMAIN s.finalized : s.finalized[i] = s.finalized[j] => i = j
        /\ \A i, j \in DOMAIN s.saves : s.saves[i] = s.saves[j] => i = j
        /\ Len(s.rewards) <= Cardinality(Range(s.finalized))

\* C11: the heights of the blockFinalized events of a replica increase
\* strictly: finalizeBlock completes for no height that is less than or
\* equal to a height the replica has finalized before.
C11_HeightsIncrease ==
    \A r \in Replicas :
      \A i, j \in DOMAIN replica[r].finalized :
        i < j => replica[r].finalized[i].blockHeight
                    < replica[r].finalized[j].blockHeight

\* C12: every block saved at an index h > 0 has a saved block at index h - 1
\* whose hash is its previousHash.
C12_SavedChainLinked ==
    \A r \in Replicas :
      \A hash \in replica[r].blocks :
        LET block == BlockOf(hash)
            parent == getBlockByHeight(replica[r], block.index - 1)
        IN block.index > 0 =>
             /\ parent # NoBlock
             /\ parent.hash \in replica[r].blocks
             /\ parent.hash = block.previousHash

\* C13: with four nodes running the code, n1 proposing block (1, H1) and
\* fair delivery, every node eventually has finalized (1, H1), and from then
\* on has finalized it exactly once.
C13_HappyPathFinalizes ==
    <>[](\A r \in Nodes :
           replica[r].finalized = <<[blockHeight |-> 1, blockHash |-> "H1"]>>)

\* C14: while no leader proposes, a node in view v eventually is in a view
\* higher than v with isViewChanging = false (for the views below the bound
\* of the model).
C14_SilentLeaderReplaced ==
    \A r \in Nodes : \A v \in 0..(MaxView - 1) :
        (replica[r].currentView = v)
            ~> (replica[r].currentView > v /\ ~replica[r].isViewChanging)

\* C15: the mempool holds at most MAX_MEMPOOL_SIZE entries and no two of its
\* entries share a hash.
C15_MempoolBounded ==
    \A r \in Replicas :
      /\ Cardinality(replica[r].memPool) <= MAX_MEMPOOL_SIZE
      /\ \A e, f \in replica[r].memPool : e.key = f.key => e = f

\* C16: when addTransaction(tx) has returned true and is called again with
\* nothing in between, the second call returns false and the mempool holds
\* exactly one entry for tx.hash.
C16_SecondCallRejected ==
    \A r \in Replicas :
      LET s == replica[r] IN
        (Len(s.returns) = 2 /\ s.returns[1].result
            /\ s.returns[1].hash = s.returns[2].hash)
          => /\ ~s.returns[2].result
             /\ Cardinality({e \in s.memPool : e.key = s.returns[2].hash}) = 1

\* C17: a step of processBatch appends none of the messages it consumes to
\* the stream again: after the step the stream holds a consumed message no
\* more often than the part of the stream the batch has not read.
C17_ConsumedNotEnqueuedAgain ==
    [][\A r \in Replicas :
         ProcessBatch(r) =>
           LET stream == replica[r].stream
               count == IF Len(stream) < BATCH_SIZE THEN Len(stream)
                        ELSE BATCH_SIZE
               rest == SubSeq(stream, count + 1, Len(stream))
           IN \A m \in Range(SubSeq(stream, 1, count)) :
                Count(replica'[r].stream, m) <= Count(rest, m)]_vars

\* C18: a finalizeBlock whose store writes fail leaves no effect: no reward,
\* no blockFinalized event, lastExecutedBlock as it was, and the commit
\* table of the key still open.
C18_FailedWriteAbortsFinalization ==
    [][\A r \in Replicas :
         Len(replica'[r].failedWrites) > Len(replica[r].failedWrites) =>
           LET hash == replica'[r].failedWrites[Len(replica'[r].failedWrites)]
           IN /\ replica'[r].finalized = replica[r].finalized
              /\ replica'[r].rewards = replica[r].rewards
              /\ replica'[r].lastExecutedBlock = replica[r].lastExecutedBlock
              /\ \A k \in Keys :
                   k[2] = hash => replica'[r].commitMessages[k] # <<>>]_vars

\* The validators of the list whose validly signed VIEW_CHANGE for the view
\* of a NEW_VIEW the NEW_VIEW carries.
ViewChangeSigners(s, m) ==
    {vc.validator : vc \in {x \in Range(m.viewChangeMessages) :
        x.type = "VIEW_CHANGE" /\ x.newView = m.view /\ SignatureValid(s, x)}}

\* NEW_VIEW messages for every view that name the node itself, a literal of
\* the list or the Byzantine key, unsigned or signed with the key of the node
\* or of the Byzantine party, with three VIEW_CHANGE entries of one sender or
\* with none.
NewViewCandidates ==
    LET full == {NewView(view, validator, signature) :
                    view \in 1..(MaxView + 1),
                    validator \in {Local, "validator2", "validator3", Byzantine},
                    signature \in {InvalidSignature, PublicKeyOf(Local), Byzantine}}
    IN full \cup {[m EXCEPT !.viewChangeMessages = <<>>] : m \in full}

C20_UnknownParentNotAdvanced ==
    \A r \in Replicas : \A hash \in Hashes :
      LET s == replica[r]
          block == BlockOf(hash)
      IN getBlockByHeight(s, block.index - 1) = NoBlock =>
           /\ \A m \in s.sent :
                ~(m.type = "PREPARE" /\ m.blockHash = hash)
           /\ \A i \in DOMAIN s.finalized : s.finalized[i].blockHash # hash

\* C21: a step of processBatch leaves every entry it has read whose handling
\* failed (the verification threw) pending, not acknowledged.
C21_FailedEntryStaysPending ==
    [][\A r \in Replicas :
         ProcessBatch(r) =>
           LET stream == replica[r].stream
               count == IF Len(stream) < BATCH_SIZE THEN Len(stream)
                        ELSE BATCH_SIZE
           IN \A m \in Range(SubSeq(stream, 1, count)) :
                verifySignatureThrows(m.validator)
                    => m \in Range(replica'[r].pending)]_vars

\* C22: at most one execution of processBatch is in flight, and while one is
\* in flight isProcessing is true.
C22_OneBatchInFlight ==
    \A r \in Replicas :
      /\ replica[r].inFlight <= 1
      /\ replica[r].inFlight = 1 <=> replica[r].isProcessing

\* C22 witness: the poll timer has fired during a batch and started nothing,
\* a batch is in flight and the stream holds entries for it.
C22_Witness ==
    /\ replica[Local].pollsSkipped
    /\ replica[Local].inFlight = 1
    /\ replica[Local].stream # <<>>

\* C23: viewChangeMessages[newView] holds at most one VIEW_CHANGE per
\* validator.
C23_OneViewChangePerValidator ==
    \A r \in Replicas : \A v \in 1..MaxView :
      Len(replica[r].viewChangeMessages[v])
          = Cardinality(Validators(replica[r].viewChangeMessages[v]))

\* C24: the step that finalizes a block leaves no transaction of the block
\* in the transaction mempool, neither in mempool nor in txTimes.
C24_FinalizedTransactionsLeaveMempool ==
    [][\A r \in Replicas :
         Len(replica'[r].finalized) > Len(replica[r].finalized) =>
           LET event == replica'[r].finalized[Len(replica'[r].finalized)]
           IN \A tx \in BlockOf(event.blockHash).transactions :
                /\ ~MapHas(replica'[r].memPool, tx)
                /\ ~MapHas(replica'[r].txTimes, tx)]_vars

\* C25: in every state the sweep, run now, removes every entry whose age has
\* reached MAX_TX_AGE from mempool and txTimes and retains every younger
\* entry in both.
C25_SweepRemovesAtMaxAge ==
    \A r \in Replicas :
      LET s == replica[r]
          next == cleanupOldTransactions(s)
      IN \A e \in s.txTimes :
           IF s.now - e.value >= MAX_TX_AGE
           THEN ~MapHas(next.memPool, e.key) /\ ~MapHas(next.txTimes, e.key)
           ELSE e \in next.txTimes
                  /\ {f \in next.memPool : f.key = e.key}
                       = {f \in s.memPool : f.key = e.key}

\* C26: a call of addTransaction that finds the mempool at MAX_MEMPOOL_SIZE
\* or above drops exactly ceil(0.1 * size) entries before it tries to admit,
\* and every retained entry has a fee per byte greater than or equal to
\* that of every dropped entry (for the entries that have a fee per byte).
C26_ShedsLowestFee ==
    [][\A r \in Replicas :
         ((\E h \in TxHashes : AddTransactionBegin(r, h))
             /\ Cardinality(replica[r].memPool) >= MAX_MEMPOOL_SIZE) =>
           LET dropped == replica[r].memPool \ replica'[r].memPool
               retained == replica[r].memPool \cap replica'[r].memPool
           IN /\ Cardinality(dropped)
                   = (Cardinality(replica[r].memPool) + 9) \div 10
              /\ \A d \in dropped : \A k \in retained :
                   (d.value.feePerByte # Undefined
                       /\ k.value.feePerByte # Undefined)
                     => k.value.feePerByte >= d.value.feePerByte]_vars

\* C27: when the timer set by initiateViewChange for newView fires while the
\* view change is still under way and fewer than a quorum of VIEW_CHANGE
\* messages for newView are held, the replica broadcasts a VIEW_CHANGE for a
\* view higher than newView and leaves a further timer pending.
C27_EscalatesWithoutQuorum ==
    [][\A r \in Replicas : \A v \in 1..MaxView :
         (/\ ViewChangeProgress(r, v)
          /\ replica[r].isViewChanging
          /\ replica[r].currentView < v
          /\ Len(replica[r].viewChangeMessages[v])
                 < getRequiredQuorum(replica[r])) =>
           /\ \E m \in replica'[r].sent \ replica[r].sent :
                  m.type = "VIEW_CHANGE" /\ m.newView > v
           /\ replica'[r].progressTimers # {}]_vars

\* One node that follows in view 1 and leads again in view 4: the Byzantine
\* party sends VIEW_CHANGE messages for these two views.
NextLeader ==
    \/ \E v \in {1, 4} : GatewayDeliver(Local, ViewChange(v, Byzantine, Byzantine))
    \/ ProcessBatch(Local)
    \/ ViewChangeTimeout(Local)
    \/ \E v \in 1..MaxView : ViewChangeProgress(Local, v)

SpecLeader == Init /\ [][NextLeader]_vars

\* C28: a replica that is primary has no view-change timer armed, so that
\* the timer starts a view change only at a replica that is not primary.
C28_PrimaryHasNoTimer ==
    \A r \in Replicas : replica[r].isPrimary => ~replica[r].viewChangeTimeout

\* One node and the PREPARE phase: the Byzantine party sends its PRE_PREPARE
\* and its PREPARE for one block, the stream is consumed on either path.
NextPrepare ==
    \/ \E type \in {"PRE_PREPARE", "PREPARE"} :
           GatewayDeliver(Local, Signed(type, "H1", 0))
    \/ AddToMempool(Local, "H1")
    \/ ProcessBatch(Local)
    \/ ProcessQueued(Local)

SpecPrepare == Init /\ [][NextPrepare]_vars

\* The COMMIT that broadcastCommit of the replica builds for a key.
CommitOf(s, key) ==
    Msg("COMMIT", key[1], key[2], s.address, s.currentView, Undefined,
        signMessage(s))

\* C29: once a replica has broadcast its COMMIT for a key in a view and
\* holds a quorum of PREPARE messages for the key, no step makes it
\* broadcast (and enqueue) that COMMIT again.
C29_OneCommitPerKey ==
    [][\A r \in Replicas : \A key \in Keys :
         (/\ CommitOf(replica[r], key) \in replica[r].sent
          /\ Len(replica[r].prepareMessages[key])
                 >= getRequiredPrepares(replica[r])) =>
           Count(replica'[r].stream, CommitOf(replica[r], key))
               <= Count(replica[r].stream, CommitOf(replica[r], key))]_vars

\* One node that moves to view 1 while block messages of view 0 arrive and
\* wait in its stream.
NextStale ==
    \/ \E type \in {"PRE_PREPARE", "PREPARE", "COMMIT"} :
           GatewayDeliver(Local, Signed(type, "H1", 0))
    \/ GatewayDeliver(Local, ViewChange(1, Byzantine, Byzantine))
    \/ ProcessBatch(Local)
    \/ ProcessQueued(Local)

SpecStale == Init /\ [][NextStale]_vars

\* C30: no step stores in prePrepareMessages, prepareMessages or
\* commitMessages a message whose view is lower than the currentView the
\* replica has when the step begins, on either path.
C30_StaleViewNotStored ==
    [][\A r \in Replicas : \A slot \in {"prePrepare", "prepare", "commit"} \X Keys :
         LET old == ListAt(replica[r], slot)
             new == ListAt(replica'[r], slot)
         IN \A i \in (Len(old) + 1)..Len(new) :
                new[i].view >= replica[r].currentView]_vars

\* One node that becomes a follower in view 1 and whose view-change timer
\* runs while messages arrive.
NextTimer ==
    \/ GatewayDeliver(Local, ViewChange(1, Byzantine, Byzantine))
    \/ \E type \in {"PRE_PREPARE", "PREPARE", "COMMIT"} :
           GatewayDeliver(Local, Signed(type, "H1", 1))
    \/ ProcessBatch(Local)
    \/ TimerRuns(Local)
    \/ ViewChangeTimeout(Local)

SpecTimer == Init /\ [][NextTimer]_vars

\* The block messages of the current view that name its leader.
LeaderMessages(s) ==
    {Msg(type, 1, "H1", LeaderOf(s, s.currentView), s.currentView, Undefined,
         signature) :
        type \in {"PRE_PREPARE", "PREPARE", "COMMIT"},
        signature \in {InvalidSignature, Byzantine}}

C32_ViewChangeNeedsDistinctQuorum ==
    [][\A r \in Replicas :
         replica'[r].currentView # replica[r].currentView =>
           Cardinality(Validators(
               replica'[r].viewChangeMessages[replica'[r].currentView]))
             >= getRequiredQuorum(replica[r])]_vars

\* C33: a step in which the primary proposes a block broadcasts a
\* PRE_PREPARE for the block that carries currentView, enqueues it and adds
\* the key of the block to processingBlocks.
C33_ProposalIsPrePrepare ==
    [][\A r \in Replicas : \A hash \in Hashes :
         (ProposeBlock(r, hash) /\ replica[r].isPrimary) =>
           /\ \E m \in replica'[r].sent :
                 /\ m.type = "PRE_PREPARE"
                 /\ KeyOf(m) = <<BlockOf(hash).index, hash>>
                 /\ m.view = replica[r].currentView
                 /\ m \in Range(replica'[r].stream)
           /\ <<BlockOf(hash).index, hash>> \in replica'[r].processingBlocks]_vars

RECURSIVE inArrivalOrder(_, _)
\* The entries handled one after another: each handler has run to its end
\* before the handler of the next entry begins.
inArrivalOrder(s, entries) ==
    IF entries = <<>> THEN s
    ELSE inArrivalOrder(handleConsensusMessage(s, Head(entries)),
                        Tail(entries))

\* What the handlers of consensus messages keep of the messages they apply.
Applied(s) ==
    <<s.currentView, s.isViewChanging, s.processingBlocks,
      s.prePrepareMessages, s.prepareMessages, s.commitMessages,
      s.viewChangeMessages>>

\* C34: a batch whose entries all come from one validator in one view leaves
\* the replica as applying its entries one after another in the order of the
\* stream does: no entry is handled before an earlier one has been applied.
C34_AppliedInArrivalOrder ==
    [][\A r \in Replicas :
         LET entries == replica[r].stream
         IN (/\ ProcessBatch(r)
             /\ \A i, j \in 1..Len(entries) :
                    /\ entries[i].validator = entries[j].validator
                    /\ entries[i].view = entries[j].view)
            => Applied(replica'[r])
                 = Applied(inArrivalOrder(replica[r], entries))]_vars

\* A caller calls initializeChain at the instant timestamp.
InitializeChain(r, timestamp) ==
    LET next == initializeChain(replica[r], timestamp)
    IN /\ replica' = [replica EXCEPT ![r] = next]
       /\ Bounded(replica'[r])

\* A caller hands a block to BlockchainService.addBlock.
AddBlock(r, hash) ==
    LET next == addBlock(replica[r], BlockOf(hash))
    IN /\ replica' = [replica EXCEPT ![r] = next]
       /\ Bounded(replica'[r])

\* One node whose chain is initialized and given blocks while the store
\* fails and recovers.
NextGenesis ==
    \/ \E timestamp \in Timestamps : InitializeChain(Local, timestamp)
    \/ \E hash \in Hashes \cup GenesisHashes : AddBlock(Local, hash)
    \/ StoreFails(Local)
    \/ StoreRecovers(Local)

SpecGenesis == Init /\ [][NextGenesis]_vars

\* C35: no step lowers the height kept under blockchain:height.
C35_PersistedHeightNeverDecreases ==
    [][\A r \in Replicas : replica'[r].height >= replica[r].height]_vars

\* The hashes of the saved blocks of index 0.
GenesisBlocks(s) == {hash \in s.blocks : BlockOf(hash).index = 0}

\* C40: a call of initializeChain on a chain that consists only of the
\* genesis block an earlier call has made leaves that block the one block of
\* index 0 and the hash recorded at height 0.
C40_InitializeChainIdempotent ==
    [][\A r \in Replicas : \A timestamp \in Timestamps : \A hash \in GenesisHashes :
         (/\ InitializeChain(r, timestamp)
          /\ replica[r].chain = <<hash>>
          /\ replica[r].blocks = {hash}
          /\ replica[r].heightIndex[0] = hash)
         => /\ GenesisBlocks(replica'[r]) = {hash}
            /\ replica'[r].heightIndex[0] = hash]_vars

\* C36: at a replica that is not in a view change, isPrimary is true exactly
\* when activeValidators[currentView mod N] is the address of the replica.
C36_PrimaryFlagMatchesLeader ==
    \A r \in Replicas :
        ~replica[r].isViewChanging =>
            (replica[r].isPrimary
               <=> LeaderOf(replica[r], replica[r].currentView)
                     = replica[r].address)

\* C36 witness: the node has gone through views in which it is not the
\* leader and has completed the change to view 4, whose leader it is.
C36_Witness ==
    /\ replica[Local].currentView = 4
    /\ {1, 4} \subseteq replica[Local].viewChanged
    /\ ~replica[Local].isViewChanging
    /\ replica[Local].isPrimary

\* handlePrePrepareMessage reaches its block test for the message and refuses
\* the block as missing or invalid.
Rejected(s, message) ==
    /\ verifyMessageSignature(message)
    /\ message.view >= s.currentView
    /\ handlePrePrepareMessageBegin(s, message).go
    /\ \/ getBlock(s, message.blockHash) = NoBlock
       \/ ~isValidBlock(s, getBlock(s, message.blockHash))

\* C37: a PRE_PREPARE whose block is refused leaves nothing that lets a later
\* PREPARE for the key in: at a replica that holds no PRE_PREPARE for a key,
\* a PREPARE handled after a refused PRE_PREPARE for the key is not stored.
C37_RejectedBlockLeavesNoEntry ==
    \A r \in Replicas : \A hash \in Hashes :
        LET s == replica[r]
            prePrepare == Signed("PRE_PREPARE", hash, s.currentView)
            prepare == Signed("PREPARE", hash, s.currentView)
            key == KeyOf(prePrepare)
            s1 == handleConsensusMessage(s, prePrepare)
            s2 == handleConsensusMessage(s1, prepare)
        IN (s.prePrepareMessages[key] = <<>> /\ Rejected(s, prePrepare))
           => /\ s1.prePrepareMessages[key] = <<>>
              /\ s2.prepareMessages[key] = s.prepareMessages[key]

\* An entry under blockchain:blocks is one that getBlock cannot rebuild.
Corrupt(r, hash) ==
    /\ hash \notin replica[r].unreadable
    /\ replica' = [replica EXCEPT ![r].blocks = @ \cup {hash},
                                  ![r].unreadable = @ \cup {hash}]

\* One node whose block service may throw: the Byzantine party sends its
\* PRE_PREPARE for a block, the chain is initialized and blocks become
\* known.
NextThrow ==
    \/ GatewayDeliver(Local, Signed("PRE_PREPARE", "H1", 0))
    \/ ProcessBatch(Local)
    \/ AddToMempool(Local, "H1")
    \/ InitializeChain(Local, 1)
    \/ \E hash \in {"H1", GenesisHash(1)} : Corrupt(Local, hash)

SpecThrow == Init /\ [][NextThrow]_vars

\* handlePrePrepareMessage reaches its block test for the message and the
\* block service throws.
Aborted(s, message) ==
    /\ verifyMessageSignature(message)
    /\ message.view >= s.currentView
    /\ handlePrePrepareMessageBegin(s, message).go
    /\ blockServiceThrows(s, message.blockHash)

\* C38: a step in which the handling of a PRE_PREPARE is left by an error of
\* the block service leaves the key of the message out of processingBlocks.
C38_ThrowUnmarksKey ==
    [][\A r \in Replicas : \A hash \in Hashes :
         LET m == Signed("PRE_PREPARE", hash, 0)
         IN (GatewayDeliver(r, m) /\ Aborted(replica[r], m))
            => KeyOf(m) \notin replica'[r].processingBlocks]_vars

\* C39: a step in which a call of addTransaction returns false, at once for a
\* hash the mempool holds or after the validation has refused the
\* transaction, leaves the mempool and the map of admission times as they
\* were.
C39_RejectedCallChangesNothing ==
    [][\A r \in Replicas : \A h \in TxHashes :
         (\/ AddTransactionBegin(r, h) /\ h \notin replica'[r].adding
          \/ AddTransactionEnd(r, h, FALSE))
         => /\ replica'[r].memPool = replica[r].memPool
            /\ replica'[r].txTimes = replica[r].txTimes]_vars

=============================================================================
